---- MODULE Spec2Model ----
(***************************************************************************)
(* Model of the ARM-to-micro-IR translator (core/arm/jit/translate.cpp)   *)
(* and of the IR values it builds (core/arm/jit/ir.h).                    *)
(*                                                                         *)
(* A node of the block body is identified by its position in the body     *)
(* (1-based); 0 is the null handle.  The translator's fields are the      *)
(* variables; handlers are operators on a record `t` of those fields, so  *)
(* that nested calls (ADD_imm -> ConditionPassed -> SetTerm) compose.     *)
(***************************************************************************)
EXTENDS Integers, Sequences, FiniteSets, TLC

VARIABLES
    pos,                     \* position inside ArmTranslator::Translate
    current,                 \* ArmTranslator::current
    block_location,          \* ir.block.location
    instructions,            \* ir.block.instructions
    terminal,                \* ir.block.terminal
    term_sets,               \* number of SetTerm calls performed on the block
    stop_compilation,        \* ArmTranslator::stop_compilation
    instructions_translated, \* ArmTranslator::instructions_translated
    reg_values,              \* ArmTranslator::reg_values
    fetches,                 \* addresses passed to Memory::Read32, in order
    last,                    \* what the most recent dispatch did
    graph,                   \* MicroValue objects with their args and uses
    ir_last,                 \* what the most recent MicroValue operation did
    translate_calls,         \* Translate() calls made on this ArmTranslator
    location                 \* the location the ArmTranslator was constructed with

vars == <<pos, current, block_location, instructions, terminal, term_sets,
          stop_compilation, instructions_translated, reg_values, fetches, last,
          graph, ir_last, translate_calls, location>>

---------------------------------------------------------------------------
\* Bounds of the model

\* Cap on loop iterations explored (the code's loop runs at most twice).
MaxInstructions == 3

\* Number of MicroValue objects built when the IR operations are explored.
MaxNodes == 3

\* Number of SetArg, ReplaceUsesWith and SetWriteFlags calls explored.
MaxCalls == 2

---------------------------------------------------------------------------
\* Program constants

PageSize == 4096
WordSize == 4
PipelineOffset == 8
InstSize == 4
NumCachedRegs == 15
PC == 15

Conds == {"EQ", "NE", "AL"}

\* A u32 is held as <<high half-word, low half-word>>, so that arithmetic
\* keeps its 32-bit width (additions wrap modulo 2^32).
Half == 2 ^ 16
U32(hi, lo) == <<hi, lo>>
Hi(x) == x[1]
Lo(x) == x[2]
ToU32(n) == U32((n \div Half) % Half, n % Half)
Add32(a, b) ==
    LET lo == Lo(a) + Lo(b)
    IN  U32((Hi(a) + Hi(b) + (lo \div Half)) % Half, lo % Half)
\* x & 0xFFF and x & 0xFFFFFFFC
LowBits(x, m) == Lo(x) % m
ClearLowBits(x, m) == U32(Hi(x), Lo(x) - (Lo(x) % m))

\* 0x1000, 0x0FFC, 0x1002, 0xFFFFFFFC, 0x0001FFFC
EntryPCs == {U32(0, 4096), U32(0, 4092), U32(0, 4098),
             U32(Half - 1, Half - 4), U32(1, 8188)}
Regs == {1, 2, PC}
DestRegs == {1, 2, PC}
Imm8s == {5}
Rotates == {0, 4}
Imm24s == {0, 2, 16777214}

\* MicroArmFlags
FlagsNone == {}
FlagsNZCV == {"N", "Z", "C", "V"}

\* LocationDescriptor
Location(pc, T, E, cond) == [arm_pc |-> pc, TFlag |-> T, EFlag |-> E, cond |-> cond]
NoLocation == Location(ToU32(0), FALSE, FALSE, "AL")

\* MicroTerminal alternatives
TermReturnToDispatch == [kind |-> "ReturnToDispatch", next |-> NoLocation]
TermInterpret(loc) == [kind |-> "Interpret", next |-> loc]
TermLinkBlock(loc) == [kind |-> "LinkBlock", next |-> loc]

\* The default-constructed MicroTerminal: the first alternative of the variant.
\* Variant in which a default-constructed terminal is an Interpret.
DefaultTerminalInterpret == TermInterpret(NoLocation)

DefaultTerminal == TermReturnToDispatch

---------------------------------------------------------------------------
\* IR nodes

Node(op, reg, value, args, wf) ==
    [op |-> op, reg |-> reg, value |-> value, args |-> args, write_flags |-> wf]

MicroConstU32(value) == Node("ConstU32", 0, value, <<>>, FlagsNone)
MicroGetGPR(reg) == Node("GetGPR", reg, ToU32(0), <<>>, FlagsNone)
MicroSetGPR(reg, arg) == Node("SetGPR", reg, ToU32(0), <<arg>>, FlagsNone)
MicroInst(op, args, wf) == Node(op, 0, ToU32(0), args, wf)

---------------------------------------------------------------------------
\* MicroBuilder: every builder call appends the new node to the block.

Emit(t, node) ==
    [t |-> [t EXCEPT !.instructions = Append(@, node)],
     v |-> Len(t.instructions) + 1]

BuilderConstU32(t, value) == Emit(t, MicroConstU32(value))
BuilderGetGPR(t, reg) == Emit(t, MicroGetGPR(reg))
BuilderSetGPR(t, reg, arg) == Emit(t, MicroSetGPR(reg, arg))
BuilderInst(t, op, args, wf) == Emit(t, MicroInst(op, args, wf))

SetTerm(t, term) ==
    [t EXCEPT !.terminal = term, !.term_sets = @ + 1]

---------------------------------------------------------------------------
\* ArmTranslator helpers

\* Variant of GetReg that ignores the cache and always emits a read.
GetRegUncached(t, reg) ==
    IF reg = PC
    THEN BuilderConstU32(t, Add32(t.current.arm_pc, ToU32(PipelineOffset)))
    ELSE LET g == BuilderGetGPR(t, reg)
         IN  [t |-> [g.t EXCEPT !.reg_values[reg] = g.v], v |-> g.v]

\* Variant of GetReg that caches the PC read like any other register.
GetRegCachingPC(t, reg) ==
    IF reg \in DOMAIN t.reg_values /\ t.reg_values[reg] # 0
    THEN [t |-> t, v |-> t.reg_values[reg]]
    ELSE LET g == IF reg = PC
                  THEN BuilderConstU32(t, Add32(t.current.arm_pc,
                                                ToU32(PipelineOffset)))
                  ELSE BuilderGetGPR(t, reg)
         IN  [t |-> [g.t EXCEPT !.reg_values = (reg :> g.v) @@ @], v |-> g.v]

GetReg(t, reg) ==
    IF reg = PC
    THEN BuilderConstU32(t, Add32(t.current.arm_pc, ToU32(PipelineOffset)))
    ELSE IF t.reg_values[reg] = 0
         THEN LET g == BuilderGetGPR(t, reg)
              IN  [t |-> [g.t EXCEPT !.reg_values[reg] = g.v], v |-> g.v]
         ELSE [t |-> t, v |-> t.reg_values[reg]]

\* Variant of SetReg that also empties the rest of the cache.
SetRegClearingOthers(t, reg, value) ==
    [t EXCEPT !.reg_values = [r \in DOMAIN @ |-> IF r = reg THEN value ELSE 0]]

\* Variant of SetReg that forgets the store.
SetRegDropped(t, reg, value) == t

SetReg(t, reg, value) ==
    [t EXCEPT !.reg_values[reg] = value]

\* Variant of FallbackToInterpreter that resumes after the failing instruction.
FallbackAfterInstruction(t) ==
    [SetTerm(t, TermInterpret([t.current EXCEPT !.arm_pc = Add32(@, ToU32(InstSize))]))
        EXCEPT !.stop_compilation = TRUE]

FallbackToInterpreter(t) ==
    [SetTerm(t, TermInterpret(t.current)) EXCEPT !.stop_compilation = TRUE]

\* Variant of ConditionPassed that stops the block even when cond matches.
ConditionPassedStops(t, cond) ==
    IF cond = t.current.cond
    THEN [t |-> [t EXCEPT !.stop_compilation = TRUE], passed |-> TRUE]
    ELSE [t |-> [SetTerm(t, TermLinkBlock(
                        Location(t.current.arm_pc, t.current.TFlag,
                                 t.current.EFlag, cond)))
                    EXCEPT !.stop_compilation = TRUE],
          passed |-> FALSE]

\* Variant of ConditionPassed whose link-out always carries cond AL.
ConditionPassedLinksAL(t, cond) ==
    IF cond = t.current.cond
    THEN [t |-> t, passed |-> TRUE]
    ELSE [t |-> [SetTerm(t, TermLinkBlock(
                        Location(t.current.arm_pc, t.current.TFlag,
                                 t.current.EFlag, "AL")))
                    EXCEPT !.stop_compilation = TRUE],
          passed |-> FALSE]

\* Variant of ConditionPassed that links to the block's own condition.
ConditionPassedKeepCond(t, cond) ==
    IF cond = t.current.cond
    THEN [t |-> t, passed |-> TRUE]
    ELSE [t |-> [SetTerm(t, TermLinkBlock(t.current))
                    EXCEPT !.stop_compilation = TRUE],
          passed |-> FALSE]

ConditionPassed(t, cond) ==
    IF cond = t.current.cond
    THEN [t |-> t, passed |-> TRUE]
    ELSE [t |-> [SetTerm(t, TermLinkBlock(
                        Location(t.current.arm_pc, t.current.TFlag,
                                 t.current.EFlag, cond)))
                    EXCEPT !.stop_compilation = TRUE],
          passed |-> FALSE]

\* ArmExpandImm: the 8-bit immediate rotated right by twice the rotate field.
ArmExpandImm(imm8, rotate) ==
    LET n == (2 * rotate) % 32
        kept == imm8 \div (2 ^ n)
        wrapped == imm8 % (2 ^ n)
        up == 32 - n
    IN  IF n = 0 THEN ToU32(imm8)
        ELSE IF up >= 16
             THEN U32((wrapped * (2 ^ (up - 16))) % Half, kept)
             ELSE Add32(ToU32(wrapped * (2 ^ up)), ToU32(kept))

\* ALUWritePC: emits the PC-writing micro-op and terminates the block.
ALUWritePC(t, value) ==
    LET i == BuilderInst(t, "AluWritePC", <<value>>, FlagsNone)
    IN  [SetTerm(i.t, TermReturnToDispatch) EXCEPT !.stop_compilation = TRUE]

---------------------------------------------------------------------------
\* Handlers

B(t, cond, imm24) ==
    LET next == [t.current EXCEPT !.arm_pc = Add32(@, ToU32(imm24))]
    IN  [SetTerm(t, TermLinkBlock(next)) EXCEPT !.stop_compilation = TRUE]

\* Variant of ADD_imm that stores Rd with a SetGPR as soon as it is computed.
ADD_immSetGPR(t, cond, S, n, d, rotate, imm8) ==
    LET expanded_imm == ArmExpandImm(imm8, rotate)
        set_flags == IF S THEN FlagsNZCV ELSE FlagsNone
        cp == ConditionPassed(t, cond)
        Rn == GetReg(cp.t, n)
        imm32 == BuilderConstU32(Rn.t, expanded_imm)
        result == BuilderInst(imm32.t, "Add", <<Rn.v, imm32.v>>, set_flags)
        executed == IF cp.passed
                    THEN IF d = PC
                         THEN ALUWritePC(result.t, result.v)
                         ELSE SetReg(BuilderSetGPR(result.t, d, result.v).t,
                                     d, result.v)
                    ELSE cp.t
    IN  [executed EXCEPT !.current.arm_pc = Add32(@, ToU32(InstSize))]

\* Variant of ADD_imm without the test for Rd = PC.
ADD_immStorePC(t, cond, S, n, d, rotate, imm8) ==
    LET expanded_imm == ArmExpandImm(imm8, rotate)
        set_flags == IF S THEN FlagsNZCV ELSE FlagsNone
        cp == ConditionPassed(t, cond)
        Rn == GetReg(cp.t, n)
        imm32 == BuilderConstU32(Rn.t, expanded_imm)
        result == BuilderInst(imm32.t, "Add", <<Rn.v, imm32.v>>, set_flags)
        executed == IF cp.passed THEN SetReg(result.t, d, result.v) ELSE cp.t
    IN  [executed EXCEPT !.current.arm_pc = Add32(@, ToU32(InstSize))]

\* Variant of ADD_imm that builds the Add before its immediate operand.
ADD_immInstFirst(t, cond, S, n, d, rotate, imm8) ==
    LET expanded_imm == ArmExpandImm(imm8, rotate)
        set_flags == IF S THEN FlagsNZCV ELSE FlagsNone
        cp == ConditionPassed(t, cond)
        Rn == GetReg(cp.t, n)
        result == BuilderInst(Rn.t, "Add",
                              <<Rn.v, Len(Rn.t.instructions) + 2>>, set_flags)
        imm32 == BuilderConstU32(result.t, expanded_imm)
        executed == IF cp.passed
                    THEN IF d = PC
                         THEN ALUWritePC(imm32.t, result.v)
                         ELSE SetReg(imm32.t, d, result.v)
                    ELSE cp.t
    IN  [executed EXCEPT !.current.arm_pc = Add32(@, ToU32(InstSize))]

\* Variant of ADD_imm that builds the immediate before reading Rn.
ADD_immConstFirst(t, cond, S, n, d, rotate, imm8) ==
    LET expanded_imm == ArmExpandImm(imm8, rotate)
        set_flags == IF S THEN FlagsNZCV ELSE FlagsNone
        cp == ConditionPassed(t, cond)
        imm32 == BuilderConstU32(cp.t, expanded_imm)
        Rn == GetReg(imm32.t, n)
        result == BuilderInst(Rn.t, "Add", <<Rn.v, imm32.v>>, set_flags)
        executed == IF cp.passed
                    THEN IF d = PC
                         THEN ALUWritePC(result.t, result.v)
                         ELSE SetReg(result.t, d, result.v)
                    ELSE cp.t
    IN  [executed EXCEPT !.current.arm_pc = Add32(@, ToU32(InstSize))]

ADD_imm(t, cond, S, n, d, rotate, imm8) ==
    LET expanded_imm == ArmExpandImm(imm8, rotate)
        set_flags == IF S THEN FlagsNZCV ELSE FlagsNone
        cp == ConditionPassed(t, cond)
        Rn == GetReg(cp.t, n)
        imm32 == BuilderConstU32(Rn.t, expanded_imm)
        result == BuilderInst(imm32.t, "Add", <<Rn.v, imm32.v>>, set_flags)
        executed == IF cp.passed
                    THEN IF d = PC
                         THEN ALUWritePC(result.t, result.v)
                         ELSE SetReg(result.t, d, result.v)
                    ELSE cp.t
    IN  [executed EXCEPT !.current.arm_pc = Add32(@, ToU32(InstSize))]

---------------------------------------------------------------------------
\* MicroValue objects: operands, use-lists and write flags.
\*
\* graph[id] is one object: its opcode, its operand handles (0: null), its
\* use-list (one entry, the consumer, per registered use, in list order) and
\* its write flags.

FlagsNZC == {"N", "Z", "C"}
FlagsC == {"C"}
FlagsAny == {"N", "Z", "C", "V", "Q", "GE"}
FlagSets == {FlagsNone, FlagsAny}

\* Leaves have no operands and the default rewrite hook; ConstU32 and GetGPR
\* objects behave alike here, so one kind is built.
LeafOps == {"ConstU32"}
InstOps == {"Add", "Not"}

\* GetMicroOpInfo: the table of section 6.
OpNumArgs(op) ==
    CASE op \in {"Add", "AddWithCarry", "Sub", "And", "Eor",
                 "LSL", "LSR", "ASR", "ROR"} -> 2
      [] op \in {"SetGPR", "PushRSBHint", "AluWritePC", "LoadWritePC", "Not",
                 "RRX", "CountLeadingZeros", "Read32"} -> 1
      [] OTHER -> 0
OpRetType(op) ==
    IF op \in {"SetGPR", "PushRSBHint", "AluWritePC", "LoadWritePC",
               "ClearExclusive"}
    THEN "Void" ELSE "U32"
OpDefaultWriteFlags(op) ==
    CASE op \in {"Add", "AddWithCarry", "Sub"} -> FlagsNZCV
      [] op \in {"And", "Eor"} -> FlagsNZC
      [] op \in {"LSL", "LSR", "ASR", "ROR"} -> FlagsC
      [] OTHER -> FlagsNone

IRNode(op) ==
    [op |-> op, args |-> [i \in 1 .. OpNumArgs(op) |-> 0], uses |-> <<>>,
     write_flags |-> OpDefaultWriteFlags(op)]

NodeIds(g) == DOMAIN g
ValueIds(g) == {id \in DOMAIN g : OpRetType(g[id].op) = "U32"}
Consumers(g, p) == {g[p].uses[k] : k \in DOMAIN g[p].uses}

\* MicroValue::AddUse
AddUse(g, p, owner) == [g EXCEPT ![p].uses = Append(@, owner)]

\* MicroValue::RemoveUse: drops one entry whose use_owner is `owner`.
RemoveUse(g, p, owner) ==
    LET us == g[p].uses
        hits == {k \in DOMAIN us : us[k] = owner}
    IN  IF hits = {} THEN g
        ELSE LET k == CHOOSE h \in hits : \A h2 \in hits : h <= h2
             IN  [g EXCEPT ![p].uses =
                    SubSeq(us, 1, k - 1) \o SubSeq(us, k + 1, Len(us))]

\* Variant of SetArg that leaves the previous producer's use-list alone.
SetArgNoRemove(g, c, i, v) ==
    [AddUse(g, v, c) EXCEPT ![c].args[i] = v]

\* MicroInst::SetArg / MicroSetGPR::SetArg: unregister from the previous
\* producer, register on the new one, store the handle.
SetArg(g, c, i, v) ==
    LET prev == g[c].args[i]
        g1 == IF prev # 0 THEN RemoveUse(g, prev, c) ELSE g
        g2 == AddUse(g1, v, c)
    IN  [g2 EXCEPT ![c].args[i] = v]

\* Variant of the MicroSetGPR constructor that stores arg_ directly.
NewSetGPRNoSetArg(g, v) ==
    [Append(g, IRNode("SetGPR")) EXCEPT ![Len(g) + 1].args[1] = v]

\* MicroSetGPR::MicroSetGPR(reg_, arg_) { SetArg(arg_); }
NewSetGPR(g, v) == SetArg(Append(g, IRNode("SetGPR")), Len(g) + 1, 1, v)

\* MicroInst::MicroInst(op, values): one SetArg per operand.
NewInst(g, op, values) ==
    LET c == Len(g) + 1
        RECURSIVE Fill(_, _)
        Fill(h, i) ==
            IF i > Len(values) THEN h ELSE Fill(SetArg(h, c, i, values[i]), i + 1)
    IN  Fill(Append(g, IRNode(op)), 1)

\* Variant of the hook that points every operand of c at y.
ReplaceUseOfXWithYEverywhere(g, c, x, y) ==
    LET RECURSIVE Scan(_, _)
        Scan(h, i) ==
            IF i > Len(h[c].args) THEN h ELSE Scan(SetArg(h, c, i, y), i + 1)
    IN  Scan(g, 1)

\* ReplaceUseOfXWithY: the default (leaf) hook does nothing; SetGPR and Inst
\* rewrite every operand position that holds x.
ReplaceUseOfXWithY(g, c, x, y) ==
    LET RECURSIVE Scan(_, _)
        Scan(h, i) ==
            IF i > Len(h[c].args) THEN h
            ELSE Scan(IF h[c].args[i] = x THEN SetArg(h, c, i, y) ELSE h, i + 1)
    IN  Scan(g, 1)

\* Variant of ReplaceUsesWith that clears the use-list after every walk,
\* a walk with itself as the replacement included.
ReplaceUsesWithClearing(g, p, r) ==
    LET snapshot == g[p].uses
        RECURSIVE Walk(_, _)
        Walk(h, k) ==
            IF k > Len(snapshot) THEN h
            ELSE Walk(ReplaceUseOfXWithY(h, snapshot[k], p, r), k + 1)
    IN  [Walk(g, 1) EXCEPT ![p].uses = <<>>]

\* Variant of ReplaceUsesWith that rewrites only the first recorded use.
ReplaceUsesWithFirstOnly(g, p, r) ==
    IF r = p \/ g[p].uses = <<>> THEN g
    ELSE LET c == g[p].uses[1]
             i == CHOOSE k \in DOMAIN g[c].args : g[c].args[k] = p
         IN  SetArg(g, c, i, r)

\* MicroValue::ReplaceUsesWith: walks a snapshot of the use-list.
ReplaceUsesWith(g, p, r) ==
    LET snapshot == g[p].uses
        RECURSIVE Walk(_, _)
        Walk(h, k) ==
            IF k > Len(snapshot) THEN h
            ELSE Walk(ReplaceUseOfXWithY(h, snapshot[k], p, r), k + 1)
    IN  IF r = p THEN g ELSE Walk(g, 1)

\* MicroInst::SetWriteFlags(flags) { write_flags = flags; }
SetWriteFlags(g, c, flags) == [g EXCEPT ![c].write_flags = flags]

\* The virtual queries.  ConstU32, GetGPR and SetGPR objects have classes of
\* their own, which override GetOp and GetType only and inherit the rest from
\* MicroValue; every other opcode is a MicroInst, which answers from
\* GetMicroOpInfo and its stored write flags.
IsInst(node) == node.op \notin {"ConstU32", "GetGPR", "SetGPR"}
GetType(node) ==
    CASE node.op \in {"ConstU32", "GetGPR"} -> "U32"
      [] node.op = "SetGPR" -> "Void"
      [] OTHER -> OpRetType(node.op)
NumArgs(node) == IF IsInst(node) THEN OpNumArgs(node.op) ELSE 0
WriteFlags(node) == IF IsInst(node) THEN node.write_flags ELSE FlagsNone
\* MicroValue::ReadFlags, as inherited by the three classes above.
InheritedReadFlags == FlagsNone

\* Record of the most recent operation: its name, receiver p, argument r,
\* operand index i, and (for the operations that rewrite operands) the graph
\* it was applied to; calls counts the operations on existing objects.
NoIROp == [op |-> "none", p |-> 0, r |-> 0, i |-> 0, pre |-> <<>>, calls |-> 0]
IROp(op, p, r, i) ==
    [op |-> op, p |-> p, r |-> r, i |-> i,
     pre |-> IF op \in {"SetArg", "ReplaceUsesWith"} THEN graph ELSE <<>>,
     calls |-> IF op = "New" THEN ir_last.calls ELSE ir_last.calls + 1]

---------------------------------------------------------------------------
\* ArmTranslator::Translate

\* Variant of the fetch that reads at current.arm_pc as it is.
FetchAddressUnmasked(pc) == pc

FetchAddress(pc) == ClearLowBits(pc, WordSize)

\* Variant of LoopExits without the page test.
LoopExitsOnStopOnly(stop, pc) == stop

\* Variant of LoopExits without the stop_compilation break.
LoopExitsOnPageOnly(stop, pc) == LowBits(pc, PageSize) # 0

\* The two `break` tests that follow each TranslateSingleArmInstruction call.
LoopExits(stop, pc) == stop \/ LowBits(pc, PageSize) # 0

\* Variant of Writeback that stores every cached register, entry reads included.
WritebackAll(t) ==
    LET RECURSIVE Store(_, _)
        Store(s, r) ==
            IF r = NumCachedRegs THEN s
            ELSE IF s.reg_values[r] = 0 THEN Store(s, r + 1)
                 ELSE Store(BuilderSetGPR(s, r, s.reg_values[r]).t, r + 1)
    IN  Store(t, 0)

\* The final loop over reg_values, whose body is commented out.
Writeback(t) == t

\* Variant of Finish that returns the block without setting stop_compilation.
FinishLeavesRunning(t) == Writeback(t)

\* The tail of Translate: the writeback loop, then stop_compilation = true.
Finish(t) == [Writeback(t) EXCEPT !.stop_compilation = TRUE]

\* Variant that records the location with cond AL.
RecordLocationAsAL(loc) == [loc EXCEPT !.cond = "AL"]

\* ir.block.location = current
RecordLocation(loc) == loc

\* A newly constructed ArmTranslator.
NewTranslator(loc) ==
    [current |-> loc, instructions |-> <<>>, terminal |-> DefaultTerminal,
     term_sets |-> 0, stop_compilation |-> FALSE,
     reg_values |-> [r \in 0 .. NumCachedRegs - 1 |-> 0]]

Translator ==
    [current |-> current, instructions |-> instructions, terminal |-> terminal,
     term_sets |-> term_sets, stop_compilation |-> stop_compilation,
     reg_values |-> reg_values]

Commit(t) ==
    /\ current' = t.current
    /\ instructions' = t.instructions
    /\ terminal' = t.terminal
    /\ term_sets' = t.term_sets
    /\ stop_compilation' = t.stop_compilation
    /\ reg_values' = t.reg_values

\* The decoded fields handed to a handler (those it does not take are 0).
Fields(cond, S, n, d, rotate, imm8, imm24) ==
    [cond |-> cond, S |-> S, n |-> n, d |-> d, rotate |-> rotate,
     imm8 |-> imm8, imm24 |-> imm24]
NoFields == Fields("AL", FALSE, 0, 0, 0, 0, 0)

NoDispatch ==
    [kind |-> "none", pc |-> ToU32(0), cond |-> "AL", n |-> 0, d |-> 0,
     passed |-> FALSE, stopped |-> FALSE, pre_len |-> 0,
     pre_regs |-> [r \in 0 .. NumCachedRegs - 1 |-> 0],
     pre_sets |-> 0, rn |-> 0, f |-> NoFields, pre_body |-> <<>>,
     pre_written |-> [r \in 0 .. NumCachedRegs - 1 |-> 0],
     written |-> [r \in 0 .. NumCachedRegs - 1 |-> 0]]

\* The record of one dispatch.  `written` keeps, per register, the value the
\* handlers so far asked to be stored in it (0: none): ADD_imm asks for its
\* Add node, the last node it emits, when it passed and Rd is not PC.
Dispatched(kind, f, passed, t2, rn) ==
    [kind |-> kind, pc |-> current.arm_pc, cond |-> f.cond, n |-> f.n, d |-> f.d,
     passed |-> passed, stopped |-> t2.stop_compilation,
     pre_len |-> Len(instructions), pre_regs |-> reg_values,
     pre_sets |-> term_sets, rn |-> rn, f |-> f, pre_body |-> instructions, pre_written |-> last.written,
     written |-> IF kind = "ADD_imm" /\ passed /\ f.d # PC
                 THEN [last.written EXCEPT ![f.d] = Len(t2.instructions)]
                 ELSE last.written]

\* One iteration of the loop: fetch, dispatch to the handler (whose result
\* is t2), count the instruction, and take or skip the two breaks.
LoopIteration(t2, info) ==
    /\ pos = "loop"
    /\ instructions_translated < MaxInstructions
    /\ Commit(t2)
    /\ fetches' = Append(fetches, FetchAddress(current.arm_pc))
    /\ instructions_translated' = instructions_translated + 1
    /\ last' = info
    /\ pos' = IF LoopExits(t2.stop_compilation, t2.current.arm_pc)
              THEN "writeback" ELSE "loop"
    /\ UNCHANGED <<block_location, graph, ir_last, translate_calls, location>>

\* The locations a translator is constructed with.  Translate(location)
\* constructs a new ArmTranslator (Init) and calls its Translate() once.
Locations ==
    {Location(pc, T, E, c) :
        pc \in EntryPCs, T \in BOOLEAN, E \in BOOLEAN, c \in Conds}

Init ==
    /\ pos = "constructed"
    /\ location \in Locations
    /\ current = location
    /\ block_location = location
    /\ instructions = <<>>
    /\ terminal = DefaultTerminal
    /\ term_sets = 0
    /\ stop_compilation = FALSE
    /\ instructions_translated = 0
    /\ reg_values = [r \in 0 .. NumCachedRegs - 1 |-> 0]
    /\ fetches = <<>>
    /\ last = NoDispatch
    /\ graph = <<>>
    /\ ir_last = NoIROp
    /\ translate_calls = 0

\* Entry of ArmTranslator::Translate(), on a new translator or on one whose
\* Translate() has already returned: the assertion, then the block location.
TranslateBegin ==
    /\ pos \in {"constructed", "returned"}
    /\ translate_calls' = translate_calls + 1
    /\ IF stop_compilation
       THEN pos' = "assert_failed" /\ UNCHANGED block_location
       ELSE pos' = "loop" /\ block_location' = RecordLocation(current)
    /\ UNCHANGED <<current, instructions, terminal, term_sets, stop_compilation,
                   instructions_translated, reg_values, fetches, last,
                   graph, ir_last, location>>

DecodeNoMatch ==
    LET t2 == FallbackToInterpreter(Translator)
    IN  LoopIteration(t2, Dispatched("NoMatch", NoFields, FALSE, t2, 0))

DispatchUnimplemented ==
    \E cond \in Conds :
        LET t2 == FallbackToInterpreter(Translator)
        IN  LoopIteration(t2, Dispatched("Unimplemented",
                                        Fields(cond, FALSE, 0, 0, 0, 0, 0),
                                        FALSE, t2, 0))

DispatchB ==
    \E cond \in Conds, imm24 \in Imm24s :
        LET t2 == B(Translator, cond, imm24)
        IN  LoopIteration(t2, Dispatched("B", Fields(cond, FALSE, 0, 0, 0, 0, imm24),
                                        TRUE, t2, 0))

DispatchADD_imm ==
    \E cond \in Conds, S \in BOOLEAN, n \in Regs, d \in DestRegs,
       rotate \in Rotates, imm8 \in Imm8s :
        LET t2 == ADD_imm(Translator, cond, S, n, d, rotate, imm8)
            cp == ConditionPassed(Translator, cond)
            rn == IF cp.passed THEN GetReg(cp.t, n).v ELSE 0
        IN  LoopIteration(t2, Dispatched("ADD_imm",
                                        Fields(cond, S, n, d, rotate, imm8, 0),
                                        cp.passed, t2, rn))

TranslateEnd ==
    /\ pos = "writeback"
    /\ Commit(Finish(Translator))
    /\ pos' = "returned"
    /\ UNCHANGED <<block_location, instructions_translated, fetches, last,
                   graph, ir_last, translate_calls, location>>

Next ==
    \/ TranslateBegin
    \/ DecodeNoMatch
    \/ DispatchUnimplemented
    \/ DispatchB
    \/ DispatchADD_imm
    \/ TranslateEnd

Spec == Init /\ [][Next]_vars

---------------------------------------------------------------------------
\* The MicroValue operations on their own: any sequence of constructions,
\* SetArg, ReplaceUsesWith and SetWriteFlags calls on up to MaxNodes objects.
\* No translation is in progress.

TranslatorIdle ==
    UNCHANGED <<pos, current, block_location, instructions, terminal, term_sets,
                stop_compilation, instructions_translated, reg_values, fetches,
                last, translate_calls, location>>

InitIR ==
    /\ pos = "idle"
    /\ current = NoLocation
    /\ block_location = NoLocation
    /\ instructions = <<>>
    /\ terminal = DefaultTerminal
    /\ term_sets = 0
    /\ stop_compilation = FALSE
    /\ instructions_translated = 0
    /\ reg_values = [r \in 0 .. NumCachedRegs - 1 |-> 0]
    /\ fetches = <<>>
    /\ last = NoDispatch
    /\ graph = <<>>
    /\ ir_last = NoIROp
    /\ translate_calls = 0
    /\ location = NoLocation

IRNewLeaf ==
    /\ Len(graph) < MaxNodes
    /\ \E op \in LeafOps :
          /\ graph' = Append(graph, IRNode(op))
          /\ ir_last' = IROp("New", Len(graph) + 1, 0, 0)
    /\ TranslatorIdle

IRNewSetGPR ==
    /\ Len(graph) < MaxNodes
    /\ \E v \in ValueIds(graph) :
          /\ graph' = NewSetGPR(graph, v)
          /\ ir_last' = IROp("New", Len(graph) + 1, 0, 0)
    /\ TranslatorIdle

IRNewInst ==
    /\ Len(graph) < MaxNodes
    /\ \E op \in InstOps :
          \E values \in [1 .. OpNumArgs(op) -> ValueIds(graph)] :
              /\ graph' = NewInst(graph, op, values)
              /\ ir_last' = IROp("New", Len(graph) + 1, 0, 0)
    /\ TranslatorIdle

IRSetArg ==
    /\ ir_last.calls < MaxCalls
    /\ \E c \in NodeIds(graph) :
          \E i \in DOMAIN graph[c].args :
              \E v \in ValueIds(graph) :
                  /\ graph' = SetArg(graph, c, i, v)
                  /\ ir_last' = IROp("SetArg", c, v, i)
    /\ TranslatorIdle

IRReplaceUsesWith ==
    /\ ir_last.calls < MaxCalls
    /\ \E p \in NodeIds(graph) :
          \E r \in ValueIds(graph) :
              /\ graph' = ReplaceUsesWith(graph, p, r)
              /\ ir_last' = IROp("ReplaceUsesWith", p, r, 0)
    /\ TranslatorIdle

IRSetWriteFlags ==
    /\ ir_last.calls < MaxCalls
    /\ \E c \in NodeIds(graph) :
          /\ graph[c].op \in InstOps
          /\ \E flags \in FlagSets :
                /\ graph' = SetWriteFlags(graph, c, flags)
                /\ ir_last' = IROp("SetWriteFlags", c, 0, 0)
    /\ TranslatorIdle

NextIR ==
    \/ IRNewLeaf
    \/ IRNewSetGPR
    \/ IRNewInst
    \/ IRSetArg
    \/ IRReplaceUsesWith
    \/ IRSetWriteFlags

SpecIR == InitIR /\ [][NextIR]_vars

---------------------------------------------------------------------------
\* Properties

Returned == pos = "returned"
EntryLocationAt(pc) ==
    Location(pc, block_location.TFlag, block_location.EFlag, block_location.cond)
SetGPRsOf(r) ==
    {i \in DOMAIN instructions :
        instructions[i].op = "SetGPR" /\ instructions[i].reg = r}
UsesOf(v) ==
    {i \in DOMAIN instructions :
        instructions[i].op # "SetGPR"
        /\ \E k \in DOMAIN instructions[i].args : instructions[i].args[k] = v}
IsEntryRead(r) ==
    reg_values[r] # 0 /\ instructions[reg_values[r]] = MicroGetGPR(r)
CachedRegs == 0 .. NumCachedRegs - 1
\* The value stored in r before the last dispatch (0: none).
WrittenBefore(r) ==
    IF last.kind = "ADD_imm" /\ last.passed /\ last.d = r
    THEN last.pre_written[r] ELSE last.written[r]

\* C1: when the decoder finds no match or the handler is unimplemented, the
\* translation stops with Interpret(L), L being the failing instruction's own
\* address with the entry context's Thumb/endian/cond; the body gets no node
\* for that instruction, and a failing first instruction leaves an empty body
\* and Interpret(entry location).
C1_FallbackInterpretsFailingInstruction ==
    last.kind \in {"NoMatch", "Unimplemented"} =>
        /\ terminal = TermInterpret(EntryLocationAt(last.pc))
        /\ stop_compilation
        /\ pos \in {"writeback", "returned", "assert_failed"}
        /\ Len(instructions) = last.pre_len
        /\ instructions_translated = 1 =>
              (instructions = <<>> /\ terminal = TermInterpret(block_location))

C1_Witness ==
    /\ Returned
    /\ last.kind = "NoMatch"
    /\ instructions_translated = 2
    /\ Len(instructions) > 0

\* C2: in one translation the terminator is assigned at most once.
C2_TerminatorSetAtMostOnce == term_sets <= 1

C2_Witness ==
    /\ Returned
    /\ term_sets = 1
    /\ instructions_translated = 2

\* C3: whenever the stop flag is true, a SetTerm has been performed.
C3_StoppedImpliesTerminatorSet == stop_compilation => term_sets >= 1

\* C4: the translator leaves the Running state only when a handler stopped
\* it or the PC reached a 4 KiB boundary; otherwise the loop goes on.
C4_LeavesRunningOnlyOnStopOrPageCross ==
    pos \in {"writeback", "returned", "assert_failed"} =>
        (last.stopped \/ LowBits(current.arm_pc, PageSize) = 0)

\* C5: once a handler has translated an instruction without stopping and the
\* new PC has its low 12 bits zero, the translation ends with
\* LinkBlock(current location) and nothing more is fetched.
C5_PageCrossLinksAndStops ==
    (last.kind # "none" /\ ~last.stopped
        /\ LowBits(current.arm_pc, PageSize) = 0) =>
        (pos # "loop" /\ terminal = TermLinkBlock(current))

\* C6: writeback completeness: in the returned block, every cached register
\* whose value v is not its own entry read has exactly one SetGPR(r, v),
\* placed after every use of v.
C6_WritebackComplete ==
    Returned =>
        \A r \in CachedRegs :
            (reg_values[r] # 0 /\ ~IsEntryRead(r)) =>
                /\ Cardinality(SetGPRsOf(r)) = 1
                /\ \A i \in SetGPRsOf(r) :
                      /\ instructions[i].args = <<reg_values[r]>>
                      /\ \A u \in UsesOf(reg_values[r]) : u < i

\* C7: writeback minimality: in the returned block, a register that was never
\* written, or whose cache entry is its own entry read, has no SetGPR.
C7_WritebackMinimal ==
    Returned =>
        \A r \in CachedRegs :
            (reg_values[r] = 0 \/ IsEntryRead(r)) => SetGPRsOf(r) = {}

C7_Witness ==
    /\ Returned
    /\ \E r \in CachedRegs : IsEntryRead(r)
    /\ \E r \in CachedRegs : reg_values[r] # 0 /\ ~IsEntryRead(r)

\* C8: a checked instruction whose condition differs from the block's static
\* condition ends the block with LinkBlock(L): L.pc the instruction's own
\* address, L's Thumb and endian flags the block's, L.cond the instruction's;
\* the body and the register cache are as before the instruction.
C8_ConditionMismatchLinksOut ==
    (last.kind = "ADD_imm" /\ last.cond # block_location.cond) =>
        /\ ~last.passed
        /\ terminal = TermLinkBlock(Location(last.pc, block_location.TFlag,
                                             block_location.EFlag, last.cond))
        /\ pos \in {"writeback", "returned", "assert_failed"}
        /\ Len(instructions) = last.pre_len
        /\ reg_values = last.pre_regs

C8_Witness ==
    /\ Returned
    /\ last.kind = "ADD_imm"
    /\ last.cond # block_location.cond
    /\ instructions_translated = 2
    /\ Len(instructions) > 0

\* C9: an instruction whose condition is AL always passes the condition
\* check, whatever the block's static condition, and the check sets no
\* terminator.
C9_ALAlwaysPasses ==
    (last.kind = "ADD_imm" /\ last.cond = "AL") =>
        /\ last.passed
        /\ last.d # PC => term_sets = last.pre_sets

\* C10: a read of r in 0..14 returns the cached node when there is one and
\* emits nothing; the first read emits exactly one GetGPR(r), caches and
\* returns it; a body never holds two GetGPR nodes for one register.
C10_RepeatedReadsShareOneGetGPR ==
    /\ \A i, j \in DOMAIN instructions :
          (instructions[i].op = "GetGPR" /\ instructions[j].op = "GetGPR"
              /\ instructions[i].reg = instructions[j].reg) => i = j
    /\ (last.kind = "ADD_imm" /\ last.passed /\ last.n # PC) =>
          /\ last.pre_regs[last.n] # 0 =>
                /\ last.rn = last.pre_regs[last.n]
                /\ \A i \in last.pre_len + 1 .. Len(instructions) :
                      instructions[i].op # "GetGPR"
          /\ last.pre_regs[last.n] = 0 =>
                /\ last.rn = last.pre_len + 1
                /\ instructions[last.rn] = MicroGetGPR(last.n)
                /\ \A i \in last.pre_len + 2 .. Len(instructions) :
                      instructions[i].op # "GetGPR"
          /\ last.d # last.n => reg_values[last.n] = last.rn

C10_Witness ==
    /\ last.kind = "ADD_imm"
    /\ last.passed
    /\ last.n # PC
    /\ last.pre_regs[last.n] # 0
    /\ instructions[last.pre_regs[last.n]] = MicroGetGPR(last.n)
    /\ last.rn = last.pre_regs[last.n]

IsADD == last.kind = "ADD_imm" /\ last.passed
EmittedByLast == SubSeq(instructions, last.pre_len + 1, Len(instructions))

\* C11: once a handler has stored v in r, the next read of r in the block
\* returns exactly v and emits no GetGPR(r); the Add built from it has v as
\* its first operand.
C11_ReadAfterWriteForwards ==
    (IsADD /\ last.n # PC /\ WrittenBefore(last.n) # 0) =>
        /\ last.rn = WrittenBefore(last.n)
        /\ \A i \in DOMAIN EmittedByLast : EmittedByLast[i].op # "GetGPR"
        /\ \E i \in DOMAIN EmittedByLast :
              /\ EmittedByLast[i].op = "Add"
              /\ EmittedByLast[i].args[1] = WrittenBefore(last.n)

C11_Witness ==
    /\ IsADD
    /\ last.n = 1
    /\ last.d = 1
    /\ WrittenBefore(1) # 0
    /\ last.rn = WrittenBefore(1)
    /\ instructions[Len(instructions)].args[1] = WrittenBefore(1)

\* C12: a read of PC returns a freshly built ConstU32 of value
\* (current_pc + 8) mod 2^32, the cache is neither read nor written by it,
\* and the cache has no entry for index 15.
C12_PCReadIsFreshConstant ==
    /\ DOMAIN reg_values = CachedRegs
    /\ (IsADD /\ last.n = PC) =>
          /\ last.rn = last.pre_len + 1
          /\ instructions[last.rn] =
                MicroConstU32(Add32(last.pc, ToU32(PipelineOffset)))
          /\ \A r \in CachedRegs \ {last.d} : reg_values[r] = last.pre_regs[r]

C12_Witness ==
    /\ IsADD
    /\ last.n = PC
    /\ last.pc = U32(Half - 1, Half - 4)
    /\ instructions[last.rn].op = "ConstU32"
    /\ instructions[last.rn].value = U32(0, 4)

\* C13: when Rd is PC the handler stores nothing in the register cache; it
\* emits AluWritePC on the result and the block ends at that instruction.
C13_WriteToPCEndsBlock ==
    (IsADD /\ last.d = PC) =>
        /\ DOMAIN reg_values = CachedRegs
        /\ \A r \in CachedRegs :
              \/ reg_values[r] = last.pre_regs[r]
              \/ (r = last.n /\ last.pre_regs[r] = 0
                    /\ instructions[reg_values[r]] = MicroGetGPR(r))
        /\ Len(instructions) >= 2
        /\ instructions[Len(instructions)] =
              MicroInst("AluWritePC", <<Len(instructions) - 1>>, FlagsNone)
        /\ instructions[Len(instructions) - 1].op = "Add"
        /\ last.stopped
        /\ pos \in {"writeback", "returned", "assert_failed"}

C13_Witness ==
    /\ Returned
    /\ IsADD
    /\ last.d = PC
    /\ instructions[Len(instructions)].op = "AluWritePC"
    /\ Len(fetches) = instructions_translated

\* C14: every instruction word fetched lies in the 4 KiB page of the entry PC.
PageOf(x) == <<Hi(x), Lo(x) \div PageSize>>
C14_FetchesStayInEntryPage ==
    \A i \in DOMAIN fetches : PageOf(fetches[i]) = PageOf(block_location.arm_pc)

\* C15: every operand of every node of the body refers to a node of the same
\* body that occurs strictly earlier.
C15_OperandsPointEarlier ==
    \A i \in DOMAIN instructions :
        \A k \in DOMAIN instructions[i].args :
            instructions[i].args[k] \in 1 .. i - 1

C15_Witness ==
    /\ Returned
    /\ instructions_translated = 2
    /\ \E i \in DOMAIN instructions :
          /\ Len(instructions[i].args) = 2
          /\ instructions[i].args[1] < last.pre_len
          /\ i > last.pre_len

\* C16: the body is the earlier instructions' nodes followed by the nodes of
\* the last one in emission order; ADD Rd, Rn, #imm emits GetGPR(Rn) (only
\* when Rn is not cached), ConstU32(imm), Add(Rn value, const).
ExpectedADD ==
    LET f == last.f
        cached == IF f.n = PC THEN 0 ELSE last.pre_regs[f.n]
        read == IF f.n = PC
                THEN <<MicroConstU32(Add32(last.pc, ToU32(PipelineOffset)))>>
                ELSE IF cached = 0 THEN <<MicroGetGPR(f.n)>> ELSE <<>>
        rnv == IF cached # 0 THEN cached ELSE last.pre_len + 1
        c == last.pre_len + Len(read) + 1
        core == read \o
                <<MicroConstU32(ArmExpandImm(f.imm8, f.rotate)),
                  MicroInst("Add", <<rnv, c>>,
                            IF f.S THEN FlagsNZCV ELSE FlagsNone)>>
    IN  IF f.d = PC
        THEN core \o <<MicroInst("AluWritePC", <<c + 1>>, FlagsNone)>>
        ELSE core

Neg32(x) == Add32(U32(Half - 1 - Hi(x), Half - 1 - Lo(x)), ToU32(1))
SignExtend24Shl2(imm24) ==
    IF imm24 < 2 ^ 23
    THEN ToU32(imm24 * 4)
    ELSE Neg32(ToU32((2 ^ 24 - imm24) * 4))
C20_BranchTargetSignExtended ==
    last.kind = "B" =>
        /\ terminal = TermLinkBlock(
              [block_location EXCEPT !.arm_pc =
                  Add32(Add32(last.pc, ToU32(PipelineOffset)),
                        SignExtend24Shl2(last.f.imm24))])
        /\ instructions = last.pre_body

---------------------------------------------------------------------------
\* Conditions, PC advance, SetReg, fetch and re-entry (checked under Spec).

\* C21: when the instruction's cond equals the block's, ConditionPassed
\* returns true without setting a terminator or the stop flag, and the
\* instruction is translated in this block (only a write to PC then ends it,
\* with the handler's own single terminator).
C21_ConditionMatchTranslates ==
    (last.kind = "ADD_imm" /\ last.cond = current.cond) =>
        /\ last.passed
        /\ instructions = last.pre_body \o ExpectedADD
        /\ last.d # PC => ~last.stopped /\ term_sets = last.pre_sets
        /\ last.d = PC => /\ term_sets = last.pre_sets + 1
                          /\ terminal = TermReturnToDispatch

C21_Witness ==
    /\ last.kind = "ADD_imm"
    /\ last.cond = "EQ"
    /\ current.cond = "EQ"
    /\ last.d # PC
    /\ ~last.stopped
    /\ Len(instructions) > last.pre_len

\* C22: a B whose cond differs from the block's adds no node and ends the
\* block with LinkBlock(B's own PC, cond := B's cond).
C22_MismatchedBranchLinksOut ==
    (last.kind = "B" /\ last.cond # current.cond) =>
        /\ instructions = last.pre_body
        /\ terminal = TermLinkBlock(Location(last.pc, current.TFlag,
                                             current.EFlag, last.cond))

\* C23: a handler that ended the block left current.arm_pc at the address of
\* the instruction it was dispatched for.
C23_TerminatingHandlerKeepsPC ==
    last.stopped => current.arm_pc = last.pc

\* C24: a handler that translated its instruction advanced current.arm_pc by
\* 4 with the Thumb flag clear and by 2 with it set, mod 2^32.
C24_PCAdvancesByInstructionSize ==
    (IsADD /\ last.d # PC) =>
        current.arm_pc = Add32(last.pc, ToU32(IF current.TFlag THEN 2 ELSE 4))

\* C25: SetReg(r, v), r in 0..14, sets the cache entry of r to v and nothing
\* else: no node follows the Add it stores, the other entries are as GetReg
\* left them, and the stop flag, the terminator and current.arm_pc (but for
\* the handler's own advance) are unchanged.
C25_SetRegChangesOnlyItsEntry ==
    (IsADD /\ last.d # PC) =>
        /\ reg_values[last.d] = Len(instructions)
        /\ instructions[Len(instructions)].op = "Add"
        /\ Len(instructions) <= last.pre_len + 3
        /\ \A r \in CachedRegs \ {last.d} :
              reg_values[r] = IF r = last.n /\ last.pre_regs[r] = 0
                              THEN last.rn ELSE last.pre_regs[r]
        /\ ~last.stopped
        /\ term_sets = last.pre_sets
        /\ current.arm_pc = Add32(last.pc, ToU32(InstSize))

\* The second instruction stores one register while another one is cached.
C25_Witness ==
    /\ IsADD
    /\ last.d # PC
    /\ instructions_translated = 2
    /\ \E r \in CachedRegs \ {last.d, last.n} :
          reg_values[r] # 0 /\ reg_values[r] = last.pre_regs[r]

\* C26: SetGPR nodes come only from the final writeback: no handler emits one
\* while the loop runs, no other node follows a SetGPR, and a body has at most
\* one SetGPR per register.
C26_SetGPROnlyFromWriteback ==
    /\ pos \in {"loop", "writeback"} =>
          \A i \in DOMAIN instructions : instructions[i].op # "SetGPR"
    /\ \A i, j \in DOMAIN instructions :
          (i < j /\ instructions[i].op = "SetGPR") =>
              instructions[j].op = "SetGPR"
    /\ \A r \in CachedRegs : Cardinality(SetGPRsOf(r)) <= 1

\* Two handlers have stored a register and the loop has ended.
C26_Witness ==
    /\ pos = "writeback"
    /\ IsADD
    /\ last.d # PC
    /\ instructions_translated = 2
    /\ \E r \in CachedRegs : last.pre_written[r] # 0
    /\ \A i \in DOMAIN instructions : instructions[i].op # "SetGPR"

\* C27: every address read is a multiple of 4, and it is current.arm_pc with
\* its two low bits cleared, unaligned entry PCs included.
C27_FetchesAreWordAligned ==
    /\ \A k \in DOMAIN fetches : Lo(fetches[k]) % 4 = 0
    /\ last.kind # "none" =>
          LET a == fetches[Len(fetches)]
          IN  /\ Hi(a) = Hi(last.pc)
              /\ Lo(last.pc) - Lo(a) \in 0 .. 3

C27_Witness ==
    /\ last.kind # "none"
    /\ Lo(last.pc) % 4 = 2
    /\ fetches[Len(fetches)] # last.pc

\* C28: Translate has set the stop flag when it returns, a second Translate()
\* on the same translator fails the entry assertion, and the one call that
\* Translate(location) makes on its new translator passes it.
C28_SecondTranslateFailsAssertion ==
    /\ Returned => stop_compilation
    /\ translate_calls >= 2 => pos = "assert_failed"
    /\ pos = "assert_failed" => translate_calls = 2 /\ stop_compilation

\* The block ended on the page test, so only the tail of Translate set the
\* flag that the second call trips over.
C28_Witness ==
    /\ pos = "assert_failed"
    /\ translate_calls = 2
    /\ IsADD
    /\ ~last.stopped

---------------------------------------------------------------------------
\* Default terminal, loop length, block location and sibling blocks
\* (checked under Spec).

\* C33: a block returned without anything having set the terminal carries the
\* default-constructed terminal, ReturnToDispatch, never Interpret or
\* LinkBlock.
C33_UnsetTerminalIsReturnToDispatch ==
    (Returned /\ term_sets = 0) =>
        /\ terminal = TermReturnToDispatch
        /\ terminal.kind \notin {"Interpret", "LinkBlock"}

\* The loop ended on the page test after an ADD that set nothing.
C33_Witness ==
    /\ Returned
    /\ term_sets = 0
    /\ IsADD
    /\ ~last.stopped
    /\ Len(instructions) > 0

\* C34: a further instruction is dispatched only with the stop flag clear and
\* the low 12 bits of the PC zero; one Translate call dispatches at most two
\* instructions, and two only from the last word of a 4 KiB page.
C34_AtMostTwoDispatches ==
    /\ (pos = "loop" /\ instructions_translated >= 1) =>
          ~stop_compilation /\ LowBits(current.arm_pc, PageSize) = 0
    /\ instructions_translated <= 2
    /\ instructions_translated = 2 =>
          LowBits(location.arm_pc, PageSize) = PageSize - WordSize

C34_Witness ==
    /\ Returned
    /\ instructions_translated = 2
    /\ Len(fetches) = 2
    /\ PageOf(fetches[1]) # PageOf(fetches[2])

\* C35: once Translate has begun, the block's location is the location the
\* translator was given (PC, Thumb flag, endian flag, cond), however far
\* current.arm_pc has advanced.
C35_BlockLocationIsEntryLocation ==
    pos \in {"loop", "writeback", "returned", "assert_failed"} =>
        block_location = location

C35_Witness ==
    /\ Returned
    /\ instructions_translated = 2
    /\ current.arm_pc # location.arm_pc
    /\ location.cond = "EQ"
    /\ block_location = location

\* The first instruction of the block ended it on a condition mismatch.
MismatchOnFirst ==
    instructions_translated = 1 /\ last.kind = "ADD_imm" /\ ~last.passed

\* The same instruction handled by a new translator for the linked location.
Retranslated ==
    ADD_imm(NewTranslator(terminal.next), last.f.cond, last.f.S, last.f.n,
            last.f.d, last.f.rotate, last.f.imm8)

\* C36: when translating L ends on its first instruction with the mismatch
\* terminal LinkBlock(L'), translating L' over the same memory passes the
\* condition check on that instruction and translates it instead of linking
\* out again.
C36_SiblingBlockTranslates ==
    MismatchOnFirst =>
        /\ terminal.kind = "LinkBlock"
        /\ terminal.next.arm_pc = location.arm_pc
        /\ terminal.next # location
        /\ ConditionPassed(NewTranslator(terminal.next), last.f.cond).passed
        /\ Retranslated.instructions # <<>>
        /\ Retranslated.terminal.kind # "LinkBlock"

C36_Witness ==
    /\ MismatchOnFirst
    /\ Returned
    /\ location.cond = "AL"
    /\ last.f.cond = "EQ"
    /\ terminal.next.cond = "EQ"
    /\ Len(Retranslated.instructions) >= 2

---------------------------------------------------------------------------
\* Properties of the MicroValue operations (checked under SpecIR).

\* Operand positions of c that hold p in graph g.
PositionsAt(g, c, p) == {i \in DOMAIN g[c].args : g[c].args[i] = p}

UseGraphU1(g) ==
    \A p \in DOMAIN g :
        /\ \A k \in DOMAIN g[p].uses : PositionsAt(g, g[p].uses[k], p) # {}
        /\ \A c \in DOMAIN g : PositionsAt(g, c, p) # {} => c \in Consumers(g, p)

Replaced == ir_last.op = "ReplaceUsesWith" /\ ir_last.p # ir_last.r

\* C17: after any sequence of constructions, SetArg and ReplaceUsesWith
\* calls, every entry C of a use-list P.uses has an operand position that
\* points at P, and every operand edge from C to P has C recorded in P.uses.
C17_UseGraphInvariant == UseGraphU1(graph)

\* A SetGPR consumer has just been moved from one producer to another.
C17_Witness ==
    /\ Replaced
    /\ \E c \in DOMAIN graph :
          /\ graph[c].op = "SetGPR"
          /\ ir_last.pre[c].args[1] = ir_last.p
          /\ graph[c].args[1] = ir_last.r
          /\ c \in Consumers(graph, ir_last.r)

\* C18: after P.ReplaceUsesWith(R) with R # P, P.uses is empty, every operand
\* position that pointed at P points at R, and R.uses contains every former
\* consumer of P.
C18_ReplaceUsesWithMovesAllUses ==
    Replaced =>
        /\ graph[ir_last.p].uses = <<>>
        /\ \A c \in DOMAIN ir_last.pre :
              \A i \in PositionsAt(ir_last.pre, c, ir_last.p) :
                  /\ graph[c].args[i] = ir_last.r
                  /\ c \in Consumers(graph, ir_last.r)

\* The replaced node was held twice by one consumer, e.g. Add(P, P).
C18_Witness ==
    /\ Replaced
    /\ Len(ir_last.pre[ir_last.p].uses) = 2
    /\ \E c \in DOMAIN ir_last.pre :
          /\ ir_last.pre[c].op = "Add"
          /\ PositionsAt(ir_last.pre, c, ir_last.p) = {1, 2}
          /\ PositionsAt(graph, c, ir_last.r) = {1, 2}

\* C19: every Inst's write flags are a subset of the default write flags of
\* its opcode, after construction and after any sequence of SetWriteFlags
\* calls.
C19_WriteFlagsWithinDefault ==
    \A c \in DOMAIN graph :
        graph[c].op \in InstOps =>
            graph[c].write_flags \subseteq OpDefaultWriteFlags(graph[c].op)

\* Number of use-list entries of p owned by c, and p's entries of the others.
UseCount(g, p, c) == Cardinality({k \in DOMAIN g[p].uses : g[p].uses[k] = c})
UsesByOthers(g, p, c) == SelectSeq(g[p].uses, LAMBDA o : o # c)

\* C29: C.SetArg(i, v), operand i pointing at P before: operand i is v, the
\* other operands of C are unchanged, P has one use-edge of C less and v one
\* more (as many when P = v), and no other entry of any use-list changes.
C29_SetArgMovesOneUseEdge ==
    ir_last.op = "SetArg" =>
        LET c == ir_last.p
            i == ir_last.i
            v == ir_last.r
            pre == ir_last.pre
            prev == pre[c].args[i]
        IN  /\ prev # 0
            /\ graph[c].args[i] = v
            /\ \A j \in DOMAIN pre[c].args \ {i} :
                  graph[c].args[j] = pre[c].args[j]
            /\ \A q \in DOMAIN pre \ {c} :
                  graph[q].args = pre[q].args
            /\ \A q \in DOMAIN pre \ {prev, v} : graph[q].uses = pre[q].uses
            /\ \A q \in {prev, v} :
                  UsesByOthers(graph, q, c) = UsesByOthers(pre, q, c)
            /\ prev # v =>
                  /\ UseCount(graph, prev, c) = UseCount(pre, prev, c) - 1
                  /\ UseCount(graph, v, c) = UseCount(pre, v, c) + 1
            /\ prev = v => UseCount(graph, v, c) = UseCount(pre, v, c)
            /\ Len(graph) = Len(pre)

\* Add(P, P) has become Add(R, P): P keeps one use-edge of the Add.
C29_Witness ==
    /\ ir_last.op = "SetArg"
    /\ LET c == ir_last.p
           prev == ir_last.pre[c].args[ir_last.i]
       IN  /\ prev # ir_last.r
           /\ UseCount(ir_last.pre, prev, c) = 2
           /\ UseCount(graph, prev, c) = 1
           /\ UseCount(graph, ir_last.r, c) = 1

C31_HookRewritesEveryPosition ==
    Replaced =>
        /\ \A c \in DOMAIN ir_last.pre :
              \A i \in DOMAIN ir_last.pre[c].args :
                  graph[c].args[i] = IF ir_last.pre[c].args[i] = ir_last.p
                                     THEN ir_last.r
                                     ELSE ir_last.pre[c].args[i]
        /\ \A q \in DOMAIN graph \ {ir_last.p, ir_last.r} :
              graph[q].uses = ir_last.pre[q].uses
        /\ \A q \in DOMAIN graph :
              \A c \in DOMAIN graph :
                  UseCount(graph, q, c) = Cardinality(PositionsAt(graph, c, q))

\* An Add that held P twice now holds R twice, while another consumer's
\* operand at a third producer is as before.
C31_Witness ==
    /\ Replaced
    /\ \E c \in DOMAIN ir_last.pre :
          /\ ir_last.pre[c].op = "Add"
          /\ PositionsAt(ir_last.pre, c, ir_last.p) = {1, 2}
          /\ graph[c].args = <<ir_last.r, ir_last.r>>
    /\ \E c \in DOMAIN ir_last.pre :
          \E i \in DOMAIN ir_last.pre[c].args :
              /\ ir_last.pre[c].args[i] \notin {0, ir_last.p, ir_last.r}
              /\ graph[c].args[i] = ir_last.pre[c].args[i]

\* C32: ConstU32 and GetGPR report type U32, no operands and no flag reads or
\* writes; SetGPR reports type Void, one operand and no flag reads or writes.
C32_VariantQueries ==
    /\ \A op \in {"ConstU32", "GetGPR"} :
          /\ GetType(IRNode(op)) = "U32"
          /\ NumArgs(IRNode(op)) = 0
          /\ WriteFlags(IRNode(op)) = FlagsNone
    /\ InheritedReadFlags = FlagsNone
    /\ \A c \in DOMAIN graph :
          graph[c].op = "SetGPR" =>
              /\ GetType(graph[c]) = "Void"
              /\ NumArgs(graph[c]) = 1
              /\ WriteFlags(graph[c]) = FlagsNone

====
